---- MODULE Spec2Model ----
(***************************************************************************)
(* The session manager of the SpeechToText component (src/app/page.tsx,    *)
(* lines 199-366): the React state and refs of the component, the engine   *)
(* handles it creates, the settling-delay continuations of toggleListening *)
(* and handleLanguageChange, and the engine's result / error / end events. *)
(*                                                                         *)
(* React semantics the model relies on:                                    *)
(*  - a user event handler runs with the closure of the latest render, so  *)
(*    it reads the current isListening and language; the code after an     *)
(*    await keeps the closure of the render in which the handler was       *)
(*    called (its isListening, its language, its initializeRecognition);   *)
(*  - refs (recognitionRef, isInitializedRef, isStartingRef) are read and  *)
(*    written in place, whatever the closure;                              *)
(*  - a setLanguage issued by the change event re-renders at the end of    *)
(*    the event and runs the [language] effect (cleanup of the previous    *)
(*    render, then initializeRecognition of the new one) in the same task. *)
(*  - the state setters keep their effect on the modelled state after      *)
(*    unmount, where React would no longer render it.                      *)
(* Text is a sequence of one-character strings.  A SpeechRecognition       *)
(* object is a record [lang, st]; the objects recognitionRef no longer     *)
(* holds but that still have events to emit are kept as counts per st.     *)
(***************************************************************************)
EXTENDS Integers, Sequences, FiniteSets, TLC

VARIABLES
    supported,        \* window.SpeechRecognition || window.webkitSpeechRecognition exists
    mounted,          \* the component is mounted
    isListening,      \* useState(false)
    spokenText,       \* useState(''): the committed transcript
    interimText,      \* useState(''): the preview
    language,         \* useState('en-US')
    recognitionRef,   \* useRef(null): the object held, NoHandle for null
    isInitializedRef, \* useRef(false)
    isStartingRef,    \* useRef(false)
    replaced,         \* objects no longer held that still emit events: st -> how many
    pending,          \* the awaited settling delays, in the order they were set
    nCommits,         \* result events that extended spokenText
    errorSinceToggle, \* an engine error was delivered after the last toggle() call
    handleIntact,     \* the object held was wired by initializeRecognition and has since
                      \* neither been asked to stop nor emitted end or error
    last              \* the step just taken and the engine commands it issued

vars == <<supported, mounted, isListening, spokenText, interimText, language,
          recognitionRef, isInitializedRef, isStartingRef, replaced, pending,
          nCommits, errorSinceToggle, handleIntact, last>>

\* ------------------------------------------------------------------ bounds

MaxReplaced == 1
MaxPending == 2
MaxCommits == 2
MaxBatchLen == 2
MaxResults == 3

\* --------------------------------------------------------------- constants

ToggleDelay == 100
LanguageDelay == 300
Languages == {"en-US", "es-ES"}
InitialLanguage == "en-US"
SP == " "
Transcripts == {<<>>, <<"a">>, <<"b">>}

\* ---------------------------------------------------------------- the engine

\* A SpeechRecognition object is [lang, st] with st "new" (never started),
\* "running", "stopping" (stop() accepted, end not yet emitted), "errored" (error
\* emitted, end not yet emitted) or "ended".
NoHandle == [lang |-> "none", st |-> "none"]
LiveStates == {"running", "stopping", "errored"}
NoneReplaced == [st \in LiveStates |-> 0]
NumReplaced(rep) == rep["running"] + rep["stopping"] + rep["errored"]

\* start() raises InvalidStateError on an object that is started and has not ended
StartThrows(h) == h.st \in LiveStates

EngineStart(h) == IF StartThrows(h) THEN h ELSE [h EXCEPT !.st = "running"]

\* stop() on an object that is not running raises in some engines and returns
\* in others: raises is what the engine at hand does
StopThrows(h, raises) == raises /\ h.st # "running"

\* stop() on a running object asks it to stop; on any other it changes nothing
\* (an engine that raises there is caught by stopRecognition)
EngineStop(h) == IF h.st = "running" THEN [h EXCEPT !.st = "stopping"] ELSE h

\* An object that is let go of stays around while it has events to emit
LetGo(rep, h) == IF h.st \in LiveStates THEN [rep EXCEPT ![h.st] = @ + 1] ELSE rep

\* ------------------------------------------------------- the session record

\* The refs, the state and the engine as one record, threaded through the calls
\* a handler makes; stopped, started, startLang and threw log the engine
\* commands issued on the way, stopThrew a stop() that raised, escaped an
\* exception that left the handler.
Cur == [recognitionRef |-> recognitionRef,
        handleIntact |-> handleIntact,
        stopRaises |-> FALSE,
        stopThrew |-> FALSE,
        escaped |-> FALSE,
        spokenText |-> spokenText,
        interimText |-> interimText,
        isInitializedRef |-> isInitializedRef,
        isStartingRef |-> isStartingRef,
        isListening |-> isListening,
        replaced |-> replaced,
        stopped |-> FALSE,
        started |-> FALSE,
        startLang |-> "none",
        threw |-> FALSE]

\* The session record in a step where the engine's stop() behaves as raises says
CurWith(raises) == [Cur EXCEPT !.stopRaises = raises]

\* stopRecognition that also empties the transcript
StopRecognitionClearing(s) ==
    IF s.recognitionRef # NoHandle
    THEN [s EXCEPT !.recognitionRef = EngineStop(s.recognitionRef),
                   !.stopped = TRUE,
                   !.stopThrew = s.stopThrew \/ StopThrows(s.recognitionRef, s.stopRaises),
                   !.handleIntact = FALSE,
                   !.isInitializedRef = FALSE,
                   !.isListening = FALSE,
                   !.spokenText = <<>>]
    ELSE s

\* stopRecognition without its try/catch: a stop() that raises leaves it
StopRecognitionUncaught(s) ==
    IF s.recognitionRef # NoHandle
    THEN IF StopThrows(s.recognitionRef, s.stopRaises)
         THEN [s EXCEPT !.stopped = TRUE,
                        !.stopThrew = TRUE,
                        !.handleIntact = FALSE,
                        !.escaped = TRUE]
         ELSE [s EXCEPT !.recognitionRef = EngineStop(s.recognitionRef),
                        !.stopped = TRUE,
                        !.handleIntact = FALSE,
                        !.isInitializedRef = FALSE,
                        !.isListening = FALSE]
    ELSE s

\* stopRecognition
StopRecognition(s) ==
    IF s.recognitionRef # NoHandle
    THEN [s EXCEPT !.recognitionRef = EngineStop(s.recognitionRef),
                   !.stopped = TRUE,
                   !.stopThrew = s.stopThrew \/ StopThrows(s.recognitionRef, s.stopRaises),
                   !.handleIntact = FALSE,
                   !.isInitializedRef = FALSE,
                   !.isListening = FALSE]
    ELSE s

\* initializeRecognition without the capability check
CapabilityAssumed == FALSE

\* if (!SpeechRecognition) { alert(...); return; }
CapabilityMissing == ~supported

\* initializeRecognition that configures the initial language whatever lang is
InitializeRecognitionDefaultLang(s, lang) ==
    IF CapabilityMissing
    THEN s
    ELSE LET s1 == StopRecognition(s)
         IN  [s1 EXCEPT !.replaced = LetGo(s1.replaced, s1.recognitionRef),
                        !.recognitionRef = [lang |-> InitialLanguage, st |-> "new"],
                        !.handleIntact = TRUE,
                        !.isInitializedRef = TRUE]

\* initializeRecognition, in a closure whose language is lang
InitializeRecognition(s, lang) ==
    IF CapabilityMissing
    THEN s
    ELSE LET s1 == StopRecognition(s)
         IN  [s1 EXCEPT !.replaced = LetGo(s1.replaced, s1.recognitionRef),
                        !.recognitionRef = [lang |-> lang, st |-> "new"],
                        !.handleIntact = TRUE,
                        !.isInitializedRef = TRUE]

\* initializeRecognition would leave one more object behind than the model keeps
Overflows(s) ==
    /\ ~CapabilityMissing
    /\ StopRecognition(s).recognitionRef.st \in LiveStates
    /\ NumReplaced(s.replaced) >= MaxReplaced

\* recognitionRef.current.start()
Start(s) ==
    [s EXCEPT !.recognitionRef = EngineStart(s.recognitionRef),
              !.started = TRUE,
              !.startLang = s.recognitionRef.lang,
              !.threw = StartThrows(s.recognitionRef)]

\* the catch blocks of toggleListening and handleLanguageChange
Caught(s) ==
    [s EXCEPT !.isStartingRef = FALSE,
              !.isListening = FALSE,
              !.isInitializedRef = FALSE]

\* recognition.onend
OnEnd(s) ==
    [s EXCEPT !.isStartingRef = FALSE,
              !.isListening = FALSE,
              !.isInitializedRef = FALSE]

\* recognition.onerror that leaves the initialized flag alone
OnErrorKeepsInitialized(s) ==
    [s EXCEPT !.isStartingRef = FALSE,
              !.isListening = FALSE]

\* recognition.onerror
OnError(s) ==
    [s EXCEPT !.isStartingRef = FALSE,
              !.isListening = FALSE,
              !.isInitializedRef = FALSE]

\* The step's record: what ran and which engine commands it issued
Step(op, s) ==
    [op |-> op, stopped |-> s.stopped, started |-> s.started,
     startLang |-> s.startLang, threw |-> s.threw,
     stopThrew |-> s.stopThrew, escaped |-> s.escaped, resultIndex |-> 0,
     dropped |-> FALSE, lang |-> "none", clean |-> FALSE, direct |-> FALSE,
     src |-> "none", batch |-> <<>>]

Commit(s) ==
    /\ recognitionRef' = s.recognitionRef
    /\ isInitializedRef' = s.isInitializedRef
    /\ isStartingRef' = s.isStartingRef
    /\ isListening' = s.isListening
    /\ replaced' = s.replaced
    /\ handleIntact' = s.handleIntact
    /\ spokenText' = s.spokenText
    /\ interimText' = s.interimText

\* ------------------------------------------------- the transcript aggregator

RECURSIVE Join(_, _)
\* Array.prototype.join: the elements with sep between neighbours
Join(texts, sep) ==
    IF texts = <<>> THEN <<>>
    ELSE IF Len(texts) = 1 THEN texts[1]
    ELSE texts[1] \o sep \o Join(Tail(texts), sep)

IsFinalResult(r) == r.isFinal
IsInterimResult(r) == ~r.isFinal
TranscriptsOf(results) == [i \in 1..Len(results) |-> results[i].transcript]

\* results.filter(result => result.isFinal).map(result => result[0].transcript).join(' ')
FinalOf(results) == Join(TranscriptsOf(SelectSeq(results, IsFinalResult)), <<SP>>)

\* results.filter(result => !result.isFinal).map(result => result[0].transcript).join('')
InterimOf(results) == Join(TranscriptsOf(SelectSeq(results, IsInterimResult)), <<>>)

\* if (final): a string is truthy when it is not empty
Truthy(text) == text # <<>>

\* setSpokenText(prev => prev + final + ' ') under if (final)
NextSpoken(prev, results) ==
    IF Truthy(FinalOf(results)) THEN prev \o FinalOf(results) \o <<SP>> ELSE prev

\* setInterimText('') under if (final), setInterimText(interim) otherwise
NextInterim(results) ==
    IF Truthy(FinalOf(results)) THEN <<>> ELSE InterimOf(results)

Results == {[isFinal |-> f, transcript |-> t] : f \in BOOLEAN, t \in Transcripts}
Batches == UNION {[1..n -> Results] : n \in 1..MaxBatchLen}

\* The result events of the session specification carry one result, "a"
SessionBatches == {b \in Batches : Len(b) = 1 /\ b[1].transcript = <<"a">>}

\* ------------------------------------------------------ settling delays

Delay(kind) == IF kind = "toggle" THEN ToggleDelay ELSE LanguageDelay

\* A timer set earlier with a delay no longer than this one's fires first
CanResume(i) == \A j \in 1..(i - 1) : Delay(pending[j].kind) > Delay(pending[i].kind)

Without(seq, i) == SubSeq(seq, 1, i - 1) \o SubSeq(seq, i + 1, Len(seq))

\* clean, of a pending continuation: for handleLanguageChange, no user intent and
\* no engine error came after the call; for toggleListening, the call was made
\* with no other continuation pending and no language change came after it.
\* direct, of a toggleListening continuation: the call came right after a
\* changeLanguage() made while not listening
Disturbed(ps, kinds) ==
    [i \in 1..Len(ps) |-> IF ps[i].kind \in kinds THEN [ps[i] EXCEPT !.clean = FALSE] ELSE ps[i]]

\* ------------------------------------------------------------------- Init

\* The state after mount: useEffect ran initializeRecognition with 'en-US'
Init ==
    /\ supported \in BOOLEAN
    /\ mounted = TRUE
    /\ isListening = FALSE
    /\ spokenText = <<>>
    /\ interimText = <<>>
    /\ language = InitialLanguage
    /\ recognitionRef = IF CapabilityMissing THEN NoHandle
                        ELSE [lang |-> InitialLanguage, st |-> "new"]
    /\ isInitializedRef = ~CapabilityMissing
    /\ isStartingRef = FALSE
    /\ replaced = NoneReplaced
    /\ pending = <<>>
    /\ nCommits = 0
    /\ errorSinceToggle = FALSE
    /\ handleIntact = ~CapabilityMissing
    /\ last = Step("mount", Cur)

\* ---------------------------------------------------------------- actions

\* the early return without the isStartingRef latch
ToggleReturnsEarlyUnlatched == recognitionRef = NoHandle

\* if (!recognitionRef.current || isStartingRef.current) return;
ToggleReturnsEarly == recognitionRef = NoHandle \/ isStartingRef

\* toggleListening up to its await (start branch) or to its end (stop branch)
Toggle ==
    /\ mounted
    /\ errorSinceToggle' = FALSE
    /\ UNCHANGED <<supported, mounted, language, nCommits>>
    /\ IF ToggleReturnsEarly
       THEN /\ Commit(Cur)
            /\ pending' = Disturbed(pending, {"language"})
            /\ last' = [Step("toggle", Cur) EXCEPT !.dropped = TRUE]
       ELSE IF ~isListening
       THEN \E raises \in BOOLEAN :
            LET s1 == [CurWith(raises) EXCEPT !.isStartingRef = TRUE]
                s2 == IF ~s1.isInitializedRef THEN InitializeRecognition(s1, language) ELSE s1
            IN  /\ Len(pending) < MaxPending
                /\ ~(~isInitializedRef /\ Overflows(s1))
                /\ Commit(s2)
                /\ pending' = Append(Disturbed(pending, {"language"}),
                                     [kind |-> "toggle", capLang |-> language,
                                      newLang |-> language, clean |-> pending = <<>>,
                                      direct |-> (last.op = "changeLanguage"
                                                  /\ pending = <<>>)])
                /\ last' = Step("toggle", s2)
       ELSE \E raises \in BOOLEAN :
            LET s1 == StopRecognition(CurWith(raises))
            IN  /\ Commit(s1)
                /\ pending' = Disturbed(pending, {"language"})
                /\ last' = Step("toggle", s1)

\* toggleListening after its await: start() and setIsListening(true), or the catch
ToggleResume(i) ==
    /\ i \in 1..Len(pending)
    /\ pending[i].kind = "toggle"
    /\ CanResume(i)
    /\ LET s1 == Start(Cur)
           s2 == IF s1.threw THEN Caught(s1) ELSE [s1 EXCEPT !.isListening = TRUE]
       IN  /\ Commit(s2)
           /\ last' = [Step("toggleResume", s2) EXCEPT !.lang = pending[i].capLang,
                                                       !.clean = pending[i].clean,
                                                       !.direct = pending[i].direct]
    /\ pending' = Without(pending, i)
    /\ UNCHANGED <<supported, mounted, language, nCommits,
                   errorSinceToggle>>

\* handleLanguageChange up to its await, then the render it causes and the
\* [language] effect: the previous render's cleanup, the new render's effect
ChangeLanguage(newLang) ==
    /\ mounted
    /\ newLang \in Languages
    /\ newLang # language
    /\ \E raises \in BOOLEAN :
       LET restart == isListening /\ recognitionRef # NoHandle
           s1 == IF restart THEN StopRecognition(CurWith(raises)) ELSE CurWith(raises)
           s2 == StopRecognition(s1)
           s3 == InitializeRecognition(s2, newLang)
           ps == Disturbed(pending, {"toggle", "language"})
       IN  /\ restart => Len(pending) < MaxPending
           /\ ~Overflows(s2)
           /\ Commit(s3)
           /\ pending' = IF restart
                         THEN Append(ps, [kind |-> "language", capLang |-> language,
                                          newLang |-> newLang, clean |-> TRUE,
                                          direct |-> FALSE])
                         ELSE ps
           /\ last' = [Step("changeLanguage", s3) EXCEPT !.lang = newLang]
    /\ language' = newLang
    /\ UNCHANGED <<supported, mounted, nCommits, errorSinceToggle>>

\* handleLanguageChange after its await, in the closure of the render it was
\* called in: language is the old one and isListening is true
LanguageResume(i) ==
    /\ i \in 1..Len(pending)
    /\ pending[i].kind = "language"
    /\ CanResume(i)
    /\ ~Overflows(Cur)
    /\ \E raises \in BOOLEAN :
       LET s1 == InitializeRecognition(CurWith(raises), pending[i].capLang)
           s2 == [s1 EXCEPT !.isStartingRef = TRUE]
           s3 == Start(s2)
           s4 == IF s3.threw THEN Caught(s3) ELSE s3
       IN  /\ Commit(s4)
           /\ last' = [Step("languageResume", s4) EXCEPT !.lang = pending[i].newLang,
                                                         !.clean = pending[i].clean]
    /\ pending' = Without(pending, i)
    /\ UNCHANGED <<supported, mounted, language, nCommits,
                   errorSinceToggle>>

\* the cleanup of the [language] effect at unmount
Unmount ==
    /\ mounted
    /\ mounted' = FALSE
    /\ \E raises \in BOOLEAN :
       LET s1 == StopRecognition(CurWith(raises))
       IN  /\ Commit(s1)
           /\ last' = Step("unmount", s1)
    /\ pending' = Disturbed(pending, {"language"})
    /\ UNCHANGED <<supported, language, nCommits, errorSinceToggle>>

\* Where an engine event comes from: the object recognitionRef holds, or one it
\* no longer holds
EmittedBy(src, sts) ==
    \/ src = "current" /\ recognitionRef.st \in sts
    \/ src = "replaced" /\ \E st \in sts : replaced[st] > 0

\* recognition.onresult
OnResult(s, results) ==
    [s EXCEPT !.spokenText = NextSpoken(s.spokenText, results),
              !.interimText = NextInterim(results)]

\* a result event, delivered to recognition.onresult
EngineResult(src, batch) ==
    /\ EmittedBy(src, {"running", "stopping"})
    /\ LET s1 == OnResult(Cur, batch)
       IN  /\ nCommits' = IF s1.spokenText # spokenText THEN nCommits + 1 ELSE nCommits
           /\ nCommits' <= MaxCommits
           /\ Commit(s1)
    /\ last' = [Step("result", Cur) EXCEPT !.src = src, !.batch = batch]
    /\ UNCHANGED <<supported, mounted, language, pending, errorSinceToggle>>

\* recognition.onerror; the engine emits end after it
EngineError(src) ==
    /\ \/ /\ src = "current"
          /\ recognitionRef.st \in {"running", "stopping"}
          /\ Commit(OnError([Cur EXCEPT !.recognitionRef.st = "errored",
                                        !.handleIntact = FALSE]))
       \/ /\ src = "replaced"
          /\ \E st \in {"running", "stopping"} :
                /\ replaced[st] > 0
                /\ Commit(OnError([Cur EXCEPT !.replaced[st] = @ - 1,
                                              !.replaced["errored"] = @ + 1]))
    /\ last' = [Step("error", Cur) EXCEPT !.src = src]
    /\ errorSinceToggle' = TRUE
    /\ pending' = Disturbed(pending, {"language"})
    /\ UNCHANGED <<supported, mounted, language, nCommits>>

\* recognition.onend: the engine stopped, by request, by itself or after an error
EngineEnd(src) ==
    /\ \/ /\ src = "current"
          /\ recognitionRef.st \in LiveStates
          /\ Commit(OnEnd([Cur EXCEPT !.recognitionRef.st = "ended",
                                      !.handleIntact = FALSE]))
       \/ /\ src = "replaced"
          /\ \E st \in LiveStates :
                /\ replaced[st] > 0
                /\ Commit(OnEnd([Cur EXCEPT !.replaced[st] = @ - 1]))
    /\ last' = [Step("end", Cur) EXCEPT !.src = src]
    /\ UNCHANGED <<supported, mounted, language, nCommits,
                   pending, errorSinceToggle>>

Sources == {"current", "replaced"}

Next ==
    \/ Toggle
    \/ \E i \in 1..MaxPending : ToggleResume(i)
    \/ \E l \in Languages : ChangeLanguage(l)
    \/ \E i \in 1..MaxPending : LanguageResume(i)
    \/ Unmount
    \/ \E src \in Sources, b \in SessionBatches : EngineResult(src, b)
    \/ \E src \in Sources : EngineError(src)
    \/ \E src \in Sources : EngineEnd(src)

Spec == Init /\ [][Next]_vars

\* The aggregator alone: a session that toggle() has started, fed every batch
InitAggregator ==
    /\ supported = TRUE
    /\ mounted = TRUE
    /\ isListening = TRUE
    /\ spokenText = <<>>
    /\ interimText = <<>>
    /\ language = InitialLanguage
    /\ recognitionRef = [lang |-> InitialLanguage, st |-> "running"]
    /\ isInitializedRef = TRUE
    /\ isStartingRef = TRUE
    /\ replaced = NoneReplaced
    /\ pending = <<>>
    /\ nCommits = 0
    /\ errorSinceToggle = FALSE
    /\ handleIntact = TRUE
    /\ last = [Step("toggleResume", Cur) EXCEPT !.started = TRUE,
                                                !.startLang = InitialLanguage,
                                                !.lang = InitialLanguage,
                                                !.clean = TRUE]

NextAggregator == \E b \in Batches : EngineResult("current", b)

SpecAggregator == InitAggregator /\ [][NextAggregator]_vars

\* ------------------------------------------- the engine's cumulative results

\* A continuous session keeps one results list: a result event carries the whole
\* list and resultIndex, the (0-based) index of the first result that changed.
\* Results become final in list order and a final result never changes.
ResultLists ==
    UNION {[1..n -> {r \in Results : r.transcript # <<>>}] : n \in 0..MaxResults}

FinalsFirst(rs) ==
    \A j, k \in 1..Len(rs) : (j < k /\ rs[k].isFinal) => rs[j].isFinal

CumulativeEvents(held) ==
    {ev \in [resultIndex : 0..Len(held), results : ResultLists] :
        /\ Len(ev.results) > ev.resultIndex
        /\ Len(ev.results) >= Len(held)
        /\ FinalsFirst(ev.results)
        /\ \A j \in 1..ev.resultIndex : ev.results[j] = held[j]
        /\ \A j \in (ev.resultIndex + 1)..Len(held) : ~held[j].isFinal
        /\ ev.resultIndex < Len(held) => ev.results[ev.resultIndex + 1] # held[ev.resultIndex + 1]}

\* the results of an event from resultIndex on
ChangedResults(ev) == SubSeq(ev.results, ev.resultIndex + 1, Len(ev.results))

\* recognition.onresult of SpeechToLetter: the loop from event.resultIndex
LetterOnResult(s, ev) ==
    LET changed == ChangedResults(ev)
        finals == SelectSeq(changed, IsFinalResult)
        final == IF finals = <<>> THEN <<>>
                 ELSE Join(TranscriptsOf(finals), <<SP>>) \o <<SP>>
        interim == Join(TranscriptsOf(SelectSeq(changed, IsInterimResult)), <<>>)
    IN  IF Truthy(final)
        THEN [s EXCEPT !.spokenText = s.spokenText \o final, !.interimText = <<>>]
        ELSE [s EXCEPT !.interimText = interim]

\* a result event of a continuous session, delivered to recognition.onresult of
\* SpeechToText, which reads event.results and not event.resultIndex
CumulativeResult(ev) ==
    /\ recognitionRef.st \in {"running", "stopping"}
    /\ LET s1 == OnResult(Cur, ev.results)
       IN  /\ nCommits' = IF s1.spokenText # spokenText THEN nCommits + 1 ELSE nCommits
           /\ nCommits' <= MaxCommits
           /\ Commit(s1)
    /\ last' = [Step("result", Cur) EXCEPT !.src = "current", !.batch = ev.results,
                                           !.resultIndex = ev.resultIndex]
    /\ UNCHANGED <<supported, mounted, language, pending, errorSinceToggle>>

\* The results list the session holds is the one its last event carried
NextCumulative == \E ev \in CumulativeEvents(last.batch) : CumulativeResult(ev)

SpecCumulative == InitAggregator /\ [][NextCumulative]_vars

TypeOK ==
    /\ supported \in BOOLEAN
    /\ mounted \in BOOLEAN
    /\ isListening \in BOOLEAN
    /\ language \in Languages
    /\ recognitionRef = NoHandle \/ recognitionRef.lang \in Languages
    /\ NumReplaced(replaced) <= MaxReplaced
    /\ Len(pending) <= MaxPending
    /\ nCommits <= MaxCommits

\* False exactly in the state the aggregator specification starts in: that
\* state is reachable in the session specification
AggregatorStartUnreached ==
    ~(/\ supported /\ isListening /\ isStartingRef /\ isInitializedRef
      /\ recognitionRef = [lang |-> InitialLanguage, st |-> "running"]
      /\ pending = <<>> /\ spokenText = <<>> /\ interimText = <<>>
      /\ replaced = NoneReplaced /\ ~errorSinceToggle /\ nCommits = 0
      /\ handleIntact
      /\ last = [Step("toggleResume", Cur) EXCEPT !.started = TRUE,
                                                  !.startLang = InitialLanguage,
                                                  !.lang = InitialLanguage,
                                                  !.clean = TRUE])

\* ------------------------------------------------------------------ claims

IsPrefix(a, b) == Len(a) <= Len(b) /\ SubSeq(b, 1, Len(a)) = a

HasFinalResult(batch) == \E i \in 1..Len(batch) : batch[i].isFinal

RECURSIVE FinalsSpaced(_)
\* each final result's transcript followed by one space, in engine order; this
\* is the finals joined by single spaces and followed by one trailing space
FinalsSpaced(batch) ==
    IF batch = <<>> THEN <<>>
    ELSE (IF Head(batch).isFinal THEN Head(batch).transcript \o <<SP>> ELSE <<>>)
         \o FinalsSpaced(Tail(batch))

RECURSIVE InterimsConcatenated(_)
\* the non-final results' transcripts, one after the other, in engine order
InterimsConcatenated(batch) ==
    IF batch = <<>> THEN <<>>
    ELSE (IF Head(batch).isFinal THEN <<>> ELSE Head(batch).transcript)
         \o InterimsConcatenated(Tail(batch))

\* C1: in every state where the session is Listening, a toggle() call issues
\* stop() to the bound engine handle and sets the status to not-listening.
C1_ToggleStopsListening ==
    [][(last'.op = "toggle" /\ isListening) => (last'.stopped /\ ~isListening')]_vars

\* C2: changeLanguage(L) while Listening, with no other user intent and no
\* engine error afterwards, issues start() after the settling delay on a handle
\* whose lang is L and leaves the session Listening.
C2_RestartListensInNewLanguage ==
    (last.op = "languageResume" /\ last.clean)
        => (last.started /\ ~last.threw /\ last.startLang = last.lang /\ isListening)

\* C3: a result batch with at least one final result, whatever the texts,
\* extends committed by the finals' transcripts joined by single spaces and one
\* trailing space.
C3_FinalsAreAppended ==
    [][(last'.op = "result" /\ HasFinalResult(last'.batch))
          => spokenText' = spokenText \o FinalsSpaced(last'.batch)]_vars

\* C4: after any batch, preview is the concatenation of the batch's non-final
\* transcripts if the batch had no final result, and empty if it had one.
C4_PreviewFollowsBatch ==
    last.op = "result"
        => interimText = IF HasFinalResult(last.batch) THEN <<>>
                         ELSE InterimsConcatenated(last.batch)

\* C5: committed is append-only over every step of every interleaving: its
\* value before the step is a prefix of its value after, and only a result
\* batch with a final result changes it.
C5_CommittedAppendOnly ==
    [][/\ IsPrefix(spokenText, spokenText')
       /\ spokenText' # spokenText
            => (last'.op = "result" /\ HasFinalResult(last'.batch))]_vars

\* C5 witness: committed text has survived a stop and a language-change restart
C5_Witness ==
    /\ spokenText # <<>>
    /\ last.op = "languageResume"

\* C6: a toggle() call made while isStartingRef is held changes no session state,
\* issues no engine command and schedules no further start.
C6_LatchedToggleIsNoOp ==
    [][(last'.op = "toggle" /\ isStartingRef)
          => /\ UNCHANGED <<isListening, isStartingRef, isInitializedRef, recognitionRef,
                            replaced, language, spokenText, interimText>>
             /\ ~last'.started
             /\ ~last'.stopped
             /\ Len(pending') = Len(pending)]_vars

\* C6 witness: a second toggle() was dropped within the first one's settling delay
C6_Witness ==
    /\ last.op = "toggle"
    /\ last.dropped
    /\ isStartingRef
    /\ ~isListening
    /\ Len(pending) = 1
    /\ pending[1].kind = "toggle"

C8_NoStartAfterError ==
    last.started => ~errorSinceToggle

\* C9: preview is empty whenever the session has stopped: after a stop via
\* toggle(), after the unbind of changeLanguage, after an engine end or error.
C9_PreviewEmptyWhenStopped ==
    (\/ last.op \in {"end", "error"}
     \/ (last.op \in {"toggle", "changeLanguage"} /\ last.stopped))
        => interimText = <<>>

\* C10: with no recognition capability no handle is ever bound and the session
\* stays Idle: not listening, latch not held, no start issued or scheduled.
C10_UnsupportedStaysIdle ==
    ~supported
        => /\ recognitionRef = NoHandle
           /\ NumReplaced(replaced) = 0
           /\ ~isListening
           /\ ~isStartingRef
           /\ ~isInitializedRef
           /\ pending = <<>>
           /\ ~last.started
           /\ ~last.stopped
           /\ ~last.threw

\* C10 witness: toggle() after a changeLanguage() in a runtime without the capability
C10_Witness ==
    /\ ~supported
    /\ language # InitialLanguage
    /\ last.op = "toggle"

NumLive == (IF recognitionRef.st \in LiveStates THEN 1 ELSE 0) + NumReplaced(replaced)

\* C11: stopRecognition called while the session is Idle leaves it Idle and
\* leaves committed and preview unchanged, whether stop() returns or raises.
C11_StopWhenIdleIsNoOp ==
    [][(last'.op \in {"toggle", "changeLanguage", "unmount"} /\ last'.stopped /\ ~isListening)
          => (~isListening' /\ spokenText' = spokenText /\ interimText' = interimText)]_vars

\* C11 witness: the unmount cleanup stopped an Idle session that shows committed
\* and preview text, and stop() raised
C11_Witness ==
    /\ last.op = "unmount"
    /\ last.stopped
    /\ last.stopThrew
    /\ ~isListening
    /\ spokenText # <<>>
    /\ interimText # <<>>
    /\ recognitionRef.st = "new"

\* C12: in every reachable state, isListening implies isStartingRef is false.
C12_ListeningReleasesLatch ==
    isListening => ~isStartingRef

\* C13: there is never a state where two settling-delay continuations are both
\* pending to call start(), and no handle receives start() while it is started.
C13_OneStartInFlight ==
    /\ Len(pending) <= 1
    /\ ~(last.started /\ last.threw)

\* C14: in every reachable state at most one handle is started and has not yet
\* emitted its end event.
C14_OneLiveHandle ==
    NumLive <= 1

\* C15: every engine error or end event, from whichever handle and in whatever
\* state, leaves isListening, isStartingRef and isInitializedRef false and
\* language, committed and preview unchanged.
C15_EndOrErrorResetsSession ==
    [][last'.op \in {"end", "error"}
          => /\ ~isListening'
             /\ ~isStartingRef'
             /\ ~isInitializedRef'
             /\ UNCHANGED <<language, spokenText, interimText>>]_vars

\* C15 witness: an error of a handle already replaced arrived while a start was
\* latched on the handle now bound, with committed and preview text shown
C15_Witness ==
    /\ last.op = "error"
    /\ last.src = "replaced"
    /\ recognitionRef.st = "running"
    /\ language # InitialLanguage
    /\ spokenText # <<>>
    /\ interimText # <<>>

\* C16: after unmount no start() is issued to any handle and no handle is left
\* running.
C16_NoStartAfterUnmount ==
    ~mounted => (~last.started /\ recognitionRef.st # "running")

\* C17: stopRecognition on a bound handle never lets an exception out and ends
\* with isInitializedRef and isListening false, whether stop() returns or raises.
\* The unmount cleanup and the stop branch of toggle() are such calls and nothing
\* else.
C17_UnbindSwallowsAndResets ==
    ((last.op = "unmount" \/ (last.op = "toggle" /\ ~isStartingRef)) /\ last.stopped)
        => (~last.escaped /\ ~isInitializedRef /\ ~isListening)

\* C17 witness: stop() raised on a handle that was never started
C17_Witness ==
    /\ last.op = "unmount"
    /\ last.stopped
    /\ last.stopThrew
    /\ recognitionRef.st = "new"

\* C18: if the handle held was wired by initializeRecognition and has since
\* neither been asked to stop nor emitted end or error, isInitializedRef is true.
C18_InitializedTracksHandle ==
    handleIntact => isInitializedRef

\* C19: with no settling delay in flight and no end event outstanding,
\* isListening is true exactly when the handle held is running.
C19_IndicatorAgreesWithEngine ==
    (/\ pending = <<>>
     /\ NumReplaced(replaced) = 0
     /\ recognitionRef.st \notin {"stopping", "errored"})
        => (isListening <=> recognitionRef.st = "running")

\* C20: with cumulative result events, each result that becomes final is in
\* committed exactly once, in order, and an event whose changed results are all
\* interim shows them in preview (alone, or after the unchanged interim results
\* before them) even after an earlier result was finalized.
C20_FinalsCommittedOnce ==
    last.op = "result"
        => /\ spokenText = FinalsSpaced(last.batch)
           /\ ~HasFinalResult(SubSeq(last.batch, last.resultIndex + 1, Len(last.batch)))
                => \E k \in 1..(last.resultIndex + 1) :
                       interimText =
                           InterimsConcatenated(SubSeq(last.batch, k, Len(last.batch)))

\* the two halves of C20, to see which of them the handler breaks
C20_NoFinalTwice == last.op = "result" => spokenText = FinalsSpaced(last.batch)

C20_InterimStillShown ==
    (last.op = "result" /\ ~HasFinalResult(SubSeq(last.batch, last.resultIndex + 1, Len(last.batch))))
        => interimText # <<>>

====
